---- MODULE Spec2Model ----
(***************************************************************************)
(* Model of src/polyfills/validityState.js: the ten facet checkers, the    *)
(* aggregate `valid` getter with its presentation side effects, and the    *)
(* ValidityState constructor with its per-element cache.                   *)
(*                                                                         *)
(* The constraint predicates, is_validation_candidate, the                  *)
(* registry of custom validators, the message store, the localisation and  *)
(* formatting helpers and get_wrapper are imported by the file and are     *)
(* not part of it; they are modelled by their contract.                    *)
(***************************************************************************)
EXTENDS Naturals, Sequences, FiniteSets

\* ------------------------------------------------------------------ bounds

\* At most this many constraint predicates fail at once on one control.
MaxFailing == 2
\* At most this many ValidityState objects are ever kept.
MaxInstances == 3

\* ---------------------------------------------------------------- universe

\* The HTML elements, and one value that is not an HTMLElement.
Controls == {"c1", "c2"}
NonElement == "obj"
Elements == Controls \cup {NonElement}

\* The external predicates a checker consults ("true" = constraint satisfied).
Predicates == {"bad_input", "pattern", "max", "min", "step",
               "maxlength", "minlength", "type", "required"}

\* What a custom validator may return.
ValidatorResults == {"true", "false", "undefined"}

\* The registry entries a control is given: the results of its validators in
\* registration order (none, two that do not fail, a failure after and a
\* failure before another validator).
ValidatorLists ==
  {<<>>, <<"true", "undefined">>, <<"undefined", "false">>, <<"false", "true">>}

NoInstance == 0

VARIABLES
  ctl,        \* ctl[c]: the control's observable state (attributes, predicate outcomes)
  registry,   \* registry[c]: results of the custom validators, in registration order
  store,      \* store[c]: the message store's entry for c
  classes,    \* classes[c]: the element's classList
  aria,       \* aria[c]: the aria-invalid attribute ("unset" when absent)
  cache,      \* ValidityState.cache: control -> instance (NoInstance when absent)
  inst,       \* inst[i]: this.element of the i-th ValidityState object
  returned,   \* returned[c]: the instances lookups for c have returned so far
  ret         \* what the last operation did and returned

vars == <<ctl, registry, store, classes, aria, cache, inst, returned, ret>>

\* ------------------------------------------------------------ message store

\* message_store.get of an element without an entry: new String('').
EmptyMessage == [key |-> "", args |-> <<>>, is_custom |-> FALSE]

\* translate + sprintf: the template's key with the arguments substituted in order.
sprintf(key, args) == [key |-> key, args |-> args, is_custom |-> FALSE]

\* msg.toString() is truthy
NonEmpty(msg) == msg.key # ""

\* string_to_date(attr, type) and string_to_number(attr, type) render an
\* attribute for display; the rendering is kept apart from the raw attribute.
string_to_date(attr, type) == "date:" \o attr
string_to_number(attr, type) == "number:" \o attr

\* ------------------------------------------------------ external predicates

test_bad_input(c) == "bad_input" \notin ctl[c].failing
test_pattern(c)   == "pattern" \notin ctl[c].failing
test_max(c)       == "max" \notin ctl[c].failing
test_min(c)       == "min" \notin ctl[c].failing
test_step(c)      == "step" \notin ctl[c].failing
test_maxlength(c) == "maxlength" \notin ctl[c].failing
test_minlength(c) == "minlength" \notin ctl[c].failing
test_type(c)      == "type" \notin ctl[c].failing
test_required(c)  == "required" \notin ctl[c].failing
is_validation_candidate(c) == ctl[c].candidate
get_type(c) == ctl[c].type
getAttribute(c, name) == ctl[c].attrs[name]
hasAttribute(c, name) == name \in ctl[c].has
unicode_string_length(c) == ctl[c].length
get_next_valid(c) == ctl[c].next_valid

\* message_store.set(element, msg): the entry becomes msg (not flagged custom).
\* message_store.delete(element): the entry is gone, a get gives EmptyMessage.
message_store_set(new) == new
message_store_delete == EmptyMessage

\* ---------------------------------------------------------- facet checkers
\* Each checker gets the element and the element's message store entry m and
\* gives: invalid (its return value), msg (the entry when it returns), calls
\* (how many custom validators it called) and wrote (it called message_store.set).

\* Mutant: the message is set whatever the predicate reports.
SetIfInvalid_always(invalid, m, msg) ==
  [invalid |-> invalid, msg |-> message_store_set(msg), calls |-> 0, wrote |-> TRUE]

\* if (invalid) { message_store.set(element, msg); } return invalid;
SetIfInvalid(invalid, m, msg) ==
  [invalid |-> invalid,
   msg |-> IF invalid THEN message_store_set(msg) ELSE m,
   calls |-> 0,
   wrote |-> invalid]

\* Mutant: badInput sets its message without the `if (invalid)` guard.
badInput_always_sets(c, m) ==
  [invalid |-> ~test_bad_input(c),
   msg |-> message_store_set(sprintf("Please match the requested type.", <<>>)),
   calls |-> 0,
   wrote |-> TRUE]

badInput(c, m) ==
  SetIfInvalid(~test_bad_input(c), m, sprintf("Please match the requested type.", <<>>))

\* Mutant: the loop tests `!result` alone, so undefined counts as a failure.
RECURSIVE FirstFailure_undefined_fails(_, _)
FirstFailure_undefined_fails(validators, k) ==
  IF k > Len(validators) THEN 0
  ELSE IF validators[k] # "true" THEN k
  ELSE FirstFailure_undefined_fails(validators, k + 1)

\* The validators are called in order up to the first one whose result is
\* neither undefined nor truthy: the index of that one, 0 when there is none.
RECURSIVE FirstFailure(_, _)
FirstFailure(validators, k) ==
  IF k > Len(validators) THEN 0
  ELSE IF validators[k] # "undefined" /\ validators[k] # "true" THEN k
  ELSE FirstFailure(validators, k + 1)

\* Mutant: the test of the stored message is not guarded by `if (valid)` and
\* overwrites what the validators found.
customError_overwrites_valid(c, m) ==
  LET custom_validators == registry[c]
      failed == FirstFailure(custom_validators, 1)
      calls == IF failed = 0 THEN Len(custom_validators) ELSE failed
      valid2 == ~(NonEmpty(m) /\ m.is_custom)
  IN  [invalid |-> ~valid2, msg |-> m, calls |-> calls, wrote |-> FALSE]

\* Mutant: customError takes any non-empty entry for a custom message.
customError_any_message(c, m) ==
  LET custom_validators == registry[c]
      failed == FirstFailure(custom_validators, 1)
      calls == IF failed = 0 THEN Len(custom_validators) ELSE failed
      valid1 == failed = 0
      valid2 == IF valid1 THEN ~NonEmpty(m) ELSE valid1
  IN  [invalid |-> ~valid2, msg |-> m, calls |-> calls, wrote |-> FALSE]

customError(c, m) ==
  LET custom_validators == registry[c]
      failed == FirstFailure(custom_validators, 1)
      calls == IF failed = 0 THEN Len(custom_validators) ELSE failed
      valid1 == failed = 0
      valid2 == IF valid1 THEN ~(NonEmpty(m) /\ m.is_custom) ELSE valid1
  IN  [invalid |-> ~valid2, msg |-> m, calls |-> calls, wrote |-> FALSE]

patternMismatch(c, m) ==
  SetIfInvalid(~test_pattern(c), m,
               IF ctl[c].title # ""
                 THEN sprintf("PatternMismatchWithTitle", <<ctl[c].title>>)
                 ELSE sprintf("PatternMismatch", <<>>))

\* Mutant: rangeOverflow has no switch and always takes the number branch.
rangeOverflow_number_only(c, m) ==
  SetIfInvalid(~test_max(c), m,
               sprintf("NumberRangeOverflow",
                       <<string_to_number(getAttribute(c, "max"), get_type(c))>>))

rangeOverflow(c, m) ==
  LET type == get_type(c)
      msg == CASE type \in {"date", "datetime", "datetime-local"} ->
                    sprintf("DateRangeOverflow", <<string_to_date(getAttribute(c, "max"), type)>>)
               [] type = "time" ->
                    sprintf("TimeRangeOverflow", <<string_to_date(getAttribute(c, "max"), type)>>)
               [] OTHER ->
                    sprintf("NumberRangeOverflow", <<string_to_number(getAttribute(c, "max"), type)>>)
  IN  SetIfInvalid(~test_max(c), m, msg)

rangeUnderflow(c, m) ==
  LET type == get_type(c)
      msg == CASE type \in {"date", "datetime", "datetime-local"} ->
                    sprintf("DateRangeUnderflow", <<string_to_date(getAttribute(c, "max"), type)>>)
               [] type = "time" ->
                    sprintf("TimeRangeUnderflow", <<string_to_date(getAttribute(c, "max"), type)>>)
               [] OTHER ->
                    sprintf("NumberRangeUnderflow", <<string_to_number(getAttribute(c, "max"), type)>>)
  IN  SetIfInvalid(~test_min(c), m, msg)

\* Mutant: the single value is taken from the side that is null.
stepMismatch_cites_absent(c, m) ==
  LET min == get_next_valid(c)[1]
      max == get_next_valid(c)[2]
      sole == IF min = "null" THEN min
              ELSE IF max = "null" THEN max
              ELSE "false"
      msg == IF sole # "false"
               THEN sprintf("StepMismatchOneValue", <<sole>>)
               ELSE sprintf("StepMismatch", <<min, max>>)
  IN  SetIfInvalid(~test_step(c), m, msg)

stepMismatch(c, m) ==
  LET min == get_next_valid(c)[1]
      max == get_next_valid(c)[2]
      sole == IF min = "null" THEN max
              ELSE IF max = "null" THEN min
              ELSE "false"
      msg == IF sole # "false"
               THEN sprintf("StepMismatchOneValue", <<sole>>)
               ELSE sprintf("StepMismatch", <<min, max>>)
  IN  SetIfInvalid(~test_step(c), m, msg)

tooLong(c, m) ==
  SetIfInvalid(~test_maxlength(c), m,
               sprintf("TextTooLong",
                       <<getAttribute(c, "maxlength"), unicode_string_length(c)>>))

tooShort(c, m) ==
  SetIfInvalid(~test_minlength(c), m,
               sprintf("Please lengthen this text to %l characters or more (you are currently using %l characters).",
                       <<getAttribute(c, "maxlength"), unicode_string_length(c)>>))

\* Mutant: typeMismatch returns its verdict without setting a message.
typeMismatch_silent(c, m) ==
  [invalid |-> ~test_type(c), msg |-> m, calls |-> 0, wrote |-> FALSE]

typeMismatch(c, m) ==
  LET type == get_type(c)
      msg == IF type = "email"
               THEN IF hasAttribute(c, "multiple")
                      THEN sprintf("Please enter a comma separated list of email addresses.", <<>>)
                      ELSE sprintf("InvalidEmail", <<>>)
             ELSE IF type = "url" THEN sprintf("InvalidURL", <<>>)
             ELSE IF type = "file" THEN sprintf("Please select a file of the correct type.", <<>>)
             ELSE sprintf("Please use the appropriate format.", <<>>)
  IN  SetIfInvalid(~test_type(c), m, msg)

valueMissing(c, m) ==
  LET type == get_type(c)
      msg == IF type = "checkbox" THEN sprintf("CheckboxMissing", <<>>)
             ELSE IF type = "radio" THEN sprintf("RadioMissing", <<>>)
             ELSE IF type = "file"
               THEN IF hasAttribute(c, "multiple")
                      THEN sprintf("Please select one or more files.", <<>>)
                      ELSE sprintf("FileMissing", <<>>)
             ELSE IF ctl[c].isSelect THEN sprintf("SelectMissing", <<>>)
             ELSE sprintf("ValueMissing", <<>>)
  IN  SetIfInvalid(~test_required(c), m, msg)

\* Mutant: customError is declared after the structural checkers.
checkers_customError_last ==
  <<"badInput", "patternMismatch", "rangeOverflow", "rangeUnderflow", "stepMismatch",
    "tooLong", "tooShort", "typeMismatch", "valueMissing", "customError">>

\* Mutant: valueMissing is declared before tooLong.
checkers_valueMissing_before_tooLong ==
  <<"badInput", "customError", "patternMismatch", "rangeOverflow", "rangeUnderflow",
    "stepMismatch", "valueMissing", "tooLong", "tooShort", "typeMismatch">>

\* The keys of the validity_state_checkers object, in the order for-in visits them.
validity_state_checkers ==
  <<"badInput", "customError", "patternMismatch", "rangeOverflow", "rangeUnderflow",
    "stepMismatch", "tooLong", "tooShort", "typeMismatch", "valueMissing">>

Facets == {validity_state_checkers[k] : k \in 1..Len(validity_state_checkers)}

\* validity_state_checkers[prop](element)
Checker(prop, c, m) ==
  CASE prop = "badInput"        -> badInput(c, m)
    [] prop = "customError"     -> customError(c, m)
    [] prop = "patternMismatch" -> patternMismatch(c, m)
    [] prop = "rangeOverflow"   -> rangeOverflow(c, m)
    [] prop = "rangeUnderflow"  -> rangeUnderflow(c, m)
    [] prop = "stepMismatch"    -> stepMismatch(c, m)
    [] prop = "tooLong"         -> tooLong(c, m)
    [] prop = "tooShort"        -> tooShort(c, m)
    [] prop = "typeMismatch"    -> typeMismatch(c, m)
    [] prop = "valueMissing"    -> valueMissing(c, m)

\* ------------------------------------------------------------ valid getter

\* get_wrapper(element): the form wrapper's settings, when the element has one.
\* c2 sits in a wrapped form that renames two classes and leaves one empty.
get_wrapper(c) ==
  IF c = "c2"
    THEN [present |-> TRUE,
          classes |-> [valid |-> "ok", invalid |-> "", validated |-> "seen"]]
    ELSE [present |-> FALSE,
          classes |-> [valid |-> "", invalid |-> "", validated |-> ""]]

\* wrapper && wrapper.settings.classes.x || 'hf-x'
validClass(c) ==
  IF get_wrapper(c).present /\ get_wrapper(c).classes.valid # ""
    THEN get_wrapper(c).classes.valid ELSE "hf-valid"
invalidClass(c) ==
  IF get_wrapper(c).present /\ get_wrapper(c).classes.invalid # ""
    THEN get_wrapper(c).classes.invalid ELSE "hf-invalid"
validatedClass(c) ==
  IF get_wrapper(c).present /\ get_wrapper(c).classes.validated # ""
    THEN get_wrapper(c).classes.validated ELSE "hf-validated"

\* Mutant: the loop does not return at the first checker that returns true.
RECURSIVE RunCheckers_no_return(_, _, _, _)
RunCheckers_no_return(c, m, k, done) ==
  IF k > Len(validity_state_checkers)
    THEN [done EXCEPT !.msg = m]
    ELSE LET prop == validity_state_checkers[k]
             o == Checker(prop, c, m)
             now == [tripped |-> done.tripped \/ o.invalid,
                     msg |-> o.msg,
                     invoked |-> Append(done.invoked, prop),
                     writes |-> IF o.wrote THEN Append(done.writes, prop) ELSE done.writes,
                     calls |-> done.calls + o.calls]
         IN  RunCheckers_no_return(c, o.msg, k + 1, now)

RECURSIVE RunCheckers(_, _, _, _)
\* The for-in loop of the valid getter from the k-th checker on, with entry m
\* and what the checkers before did: tripped (a checker returned true), the
\* entry left, the checkers invoked, those that wrote the entry, and the
\* custom validators called.
RunCheckers(c, m, k, done) ==
  IF k > Len(validity_state_checkers)
    THEN [done EXCEPT !.msg = m]
    ELSE LET prop == validity_state_checkers[k]
             o == Checker(prop, c, m)
             now == [tripped |-> o.invalid,
                     msg |-> o.msg,
                     invoked |-> Append(done.invoked, prop),
                     writes |-> IF o.wrote THEN Append(done.writes, prop) ELSE done.writes,
                     calls |-> done.calls + o.calls]
         IN  IF o.invalid THEN now ELSE RunCheckers(c, o.msg, k + 1, now)

NotRun(m) == [tripped |-> FALSE, msg |-> m, invoked |-> <<>>, writes |-> <<>>, calls |-> 0]

\* Mutant: classList.toggle in place of classList.add.
Marked_toggle(c) ==
  IF validatedClass(c) \in classes[c]
    THEN classes[c] \ {validatedClass(c)}
    ELSE classes[c] \cup {validatedClass(c)}

\* this.element.classList.add(validatedClass)
Marked(c) == classes[c] \cup {validatedClass(c)}

\* Mutant: the checkers run whether the element is a candidate or not.
CheckAll_any_element(c) == RunCheckers(c, store[c], 1, NotRun(store[c]))

\* Mutant: the loop starts at the second checker.
CheckAll_skips_badInput(c) ==
  IF is_validation_candidate(c)
    THEN RunCheckers(c, store[c], 2, NotRun(store[c]))
    ELSE NotRun(store[c])

\* if (is_validation_candidate(this.element)) { for (let prop in ...) ... }
CheckAll(c) ==
  IF is_validation_candidate(c)
    THEN RunCheckers(c, store[c], 1, NotRun(store[c]))
    ELSE NotRun(store[c])

\* Mutant: the valid class is not removed.
Failed_keeps_valid_class(c, run) ==
  [val |-> FALSE, msg |-> run.msg,
   classes |-> Marked(c) \cup {invalidClass(c)},
   aria |-> "true"]

\* A checker returned true: the invalid class, not the valid one, aria-invalid.
Failed(c, run) ==
  [val |-> FALSE, msg |-> run.msg,
   classes |-> (Marked(c) \cup {invalidClass(c)}) \ {validClass(c)},
   aria |-> "true"]

\* Mutant: the entry is not deleted.
Passed_keeps_message(c, run) ==
  [val |-> TRUE, msg |-> run.msg,
   classes |-> (Marked(c) \ {invalidClass(c)}) \cup {validClass(c)},
   aria |-> "false"]

\* After the loop: the entry deleted, the valid class, not the invalid one.
Passed(c, run) ==
  [val |-> TRUE, msg |-> message_store_delete,
   classes |-> (Marked(c) \ {invalidClass(c)}) \cup {validClass(c)},
   aria |-> "false"]

\* The valid getter on an instance whose element is c: its return value and
\* what it leaves in the message store, the classList and aria-invalid.
ValidGetter(c) ==
  LET run == CheckAll(c)
      out == IF run.tripped THEN Failed(c, run) ELSE Passed(c, run)
  IN  [val |-> out.val, msg |-> out.msg, classes |-> out.classes, aria |-> out.aria,
       invoked |-> run.invoked, writes |-> run.writes, calls |-> run.calls]

\* --------------------------------------------------------------- history

\* How many reads of `valid` in a row are told apart.
MaxRepeat == 2

\* ret: the last operation (op: "none" after a change of the control), the
\* element it was about, the value returned (for a construction: FALSE when it
\* threw), the instance used or returned and, for a read of `valid`, the
\* checkers the loop invoked in order, those that wrote the message store
\* entry, the custom validators called, and how many reads of `valid` in a
\* row this one ends (counted up to MaxRepeat).
NoRet == [op |-> "none", el |-> NonElement, val |-> TRUE, obj |-> NoInstance,
          invoked |-> <<>>, writes |-> <<>>, calls |-> 0, repeat |-> 0]

Instances == 1..Len(inst)

\* ReadValid(i): a read of instance i's `valid` property.
ReadValid(i) ==
  /\ i \in Instances
  /\ LET c == inst[i]
         r == ValidGetter(c)
     IN  /\ store' = [store EXCEPT ![c] = r.msg]
         /\ classes' = [classes EXCEPT ![c] = r.classes]
         /\ aria' = [aria EXCEPT ![c] = r.aria]
         /\ ret' = [op |-> "valid", el |-> c, val |-> r.val, obj |-> i,
                    invoked |-> r.invoked, writes |-> r.writes, calls |-> r.calls,
                    repeat |-> IF ret.op = "valid" /\ ret.obj = i
                                 THEN IF ret.repeat < MaxRepeat THEN ret.repeat + 1
                                                                ELSE ret.repeat
                                 ELSE 1]
  /\ UNCHANGED <<ctl, registry, cache, inst, returned>>

\* ReadFacet(i, prop): a read of one of the ten facet properties of instance i.
ReadFacet(i, prop) ==
  /\ i \in Instances
  /\ prop \in Facets
  /\ LET c == inst[i]
         o == Checker(prop, c, store[c])
     IN  /\ store' = [store EXCEPT ![c] = o.msg]
         /\ ret' = [NoRet EXCEPT !.op = "facet", !.el = c, !.val = o.invalid, !.obj = i]
  /\ UNCHANGED <<ctl, registry, classes, aria, cache, inst, returned>>

\* ------------------------------------------------------------ constructor

\* Mutant: the lookup never finds the instance.
CacheGet_miss(e) == NoInstance

\* ValidityState.cache.get(element)
CacheGet(e) == cache[e]

\* Mutant: the constructor accepts any object.
IsHTMLElement_any_object(e) == TRUE

\* element instanceof window.HTMLElement
IsHTMLElement(e) == e \in Controls

\* ValidityState(element), called with `new` or without. A non-element throws;
\* a cached instance is returned as it is (the object `new` allocated is
\* dropped); otherwise one object is given the element and cached. A call
\* without `new` re-enters with `new`, passes the same two tests and does the same.
Construct(e, withNew) ==
  IF ~IsHTMLElement(e)
    THEN /\ ret' = [NoRet EXCEPT !.op = "construct", !.el = e, !.val = FALSE]
         /\ UNCHANGED <<ctl, registry, store, classes, aria, cache, inst, returned>>
  ELSE IF CacheGet(e) # NoInstance
    THEN /\ ret' = [NoRet EXCEPT !.op = "construct", !.el = e, !.obj = CacheGet(e)]
         /\ returned' = [returned EXCEPT ![e] = @ \cup {CacheGet(e)}]
         /\ UNCHANGED <<ctl, registry, store, classes, aria, cache, inst>>
  ELSE /\ Len(inst) < MaxInstances
       /\ inst' = Append(inst, e)
       /\ cache' = [cache EXCEPT ![e] = Len(inst) + 1]
       /\ ret' = [NoRet EXCEPT !.op = "construct", !.el = e, !.obj = Len(inst) + 1]
       /\ returned' = [returned EXCEPT ![e] = @ \cup {Len(inst) + 1}]
       /\ UNCHANGED <<ctl, registry, store, classes, aria>>

\* The installed `validity` accessor of an element: ValidityState(this).
ReadValidity(e) ==
  /\ e \in Controls
  /\ Construct(e, FALSE)

\* ------------------------------------------------------------ environment
\* What the page and the user do to a control between reads.

\* The value or an attribute changes so that predicate p's outcome flips.
ChangePredicate(c, p) ==
  /\ p \in Predicates
  /\ LET f == IF p \in ctl[c].failing THEN ctl[c].failing \ {p}
                                      ELSE ctl[c].failing \cup {p}
     IN  /\ Cardinality(f) <= MaxFailing
         /\ ctl' = [ctl EXCEPT ![c].failing = f]
  /\ ret' = NoRet
  /\ UNCHANGED <<registry, store, classes, aria, cache, inst, returned>>

\* The control becomes, or stops being, a validation candidate (disabled, ...).
ChangeCandidate(c) ==
  /\ ctl' = [ctl EXCEPT ![c].candidate = ~@]
  /\ ret' = NoRet
  /\ UNCHANGED <<registry, store, classes, aria, cache, inst, returned>>

\* The registry entry of c changes: validators are registered or removed, or
\* the control changes so that their results do.
SetValidators(c, vs) ==
  /\ vs \in ValidatorLists
  /\ vs # registry[c]
  /\ registry' = [registry EXCEPT ![c] = vs]
  /\ ret' = NoRet
  /\ UNCHANGED <<ctl, store, classes, aria, cache, inst, returned>>

\* An external party sets c's message flagged as custom ("" clears the text).
CustomTexts == {"", "custom text"}

SetCustomMessage(c, text) ==
  /\ text \in CustomTexts
  /\ store' = [store EXCEPT ![c] = [key |-> text, args |-> <<>>, is_custom |-> TRUE]]
  /\ ret' = NoRet
  /\ UNCHANGED <<ctl, registry, classes, aria, cache, inst, returned>>

\* ------------------------------------------------------------------- Init

\* A text input with every attribute the messages cite.
TextControl ==
  [candidate |-> TRUE, failing |-> {}, type |-> "text", title |-> "",
   attrs |-> [max |-> "10", min |-> "2", maxlength |-> "5", minlength |-> "3"],
   has |-> {}, isSelect |-> FALSE, length |-> "9", next_valid |-> <<"4", "6">>]

InitEngine ==
  /\ store = [c \in Controls |-> EmptyMessage]
  /\ classes = [c \in Controls |-> {}]
  /\ aria = [c \in Controls |-> "unset"]
  /\ cache = [e \in Elements |-> NoInstance]
  /\ inst = <<>>
  /\ returned = [e \in Elements |-> {}]
  /\ ret = NoRet

Init ==
  /\ ctl = [c \in Controls |-> TextControl]
  /\ registry = [c \in Controls |-> <<>>]
  /\ InitEngine

\* ------------------------------------------------------------------- Next

\* The control under test.
Tracked == {"c1"}

Next ==
  \/ \E e \in Tracked, withNew \in BOOLEAN : Construct(e, withNew)
  \/ \E e \in Tracked : ReadValidity(e)
  \/ \E i \in Instances : ReadValid(i)
  \/ \E i \in Instances, prop \in Facets : ReadFacet(i, prop)
  \/ \E c \in Tracked, p \in Predicates : ChangePredicate(c, p)
  \/ \E c \in Tracked : ChangeCandidate(c)
  \/ \E c \in Tracked, vs \in ValidatorLists : SetValidators(c, vs)
  \/ \E c \in Tracked, text \in CustomTexts : SetCustomMessage(c, text)

\* One control with every change of its state, read through its instance.
Spec == Init /\ [][Next]_vars

\* The predicates that change in SpecCache.
CachePredicates == {"required"}

NextCache ==
  \/ \E e \in Elements, withNew \in BOOLEAN : Construct(e, withNew)
  \/ \E e \in Controls : ReadValidity(e)
  \/ \E i \in Instances : ReadValid(i)
  \/ \E i \in Instances, prop \in Facets : ReadFacet(i, prop)
  \/ \E c \in Controls, p \in CachePredicates : ChangePredicate(c, p)

\* Every element constructed and looked up in every order, with and without
\* `new`, between reads of the instances.
SpecCache == Init /\ [][NextCache]_vars

\* The declared types the message selection distinguishes, and some it does not.
MessageTypes ==
  {"date", "datetime", "datetime-local", "time", "number", "range", "month",
   "text", "email", "url", "file", "checkbox", "radio"}

\* What get_next_valid returns: the nearest valid values below and above the
\* value, "null" for one that does not exist.
NextValids == {<<"4", "6">>, <<"null", "6">>, <<"4", "null">>}

\* Controls that differ in what the messages are built from.
MessageControls ==
  {[TextControl EXCEPT !.type = t, !.has = h] :
     t \in MessageTypes, h \in {{}, {"multiple"}}}
  \cup {[TextControl EXCEPT !.next_valid = nv] : nv \in NextValids}
  \cup {[TextControl EXCEPT !.title = "four digits"], [TextControl EXCEPT !.isSelect = TRUE]}

\* The length of a value that fails exactly the predicates in f, for
\* maxlength 5 and minlength 3.
LengthFailing(f) ==
  IF "minlength" \in f THEN "1" ELSE IF "maxlength" \in f THEN "9" ELSE "4"

\* A control of MessageControls whose value fails at most one predicate.
InitMessages ==
  /\ \E k \in MessageControls, f \in {{}} \cup {{p} : p \in Predicates} :
       ctl = [c \in Controls |->
                IF c \in Tracked
                  THEN [k EXCEPT !.failing = f, !.length = LengthFailing(f)]
                  ELSE TextControl]
  /\ registry = [c \in Controls |-> <<>>]
  /\ InitEngine

NextMessages ==
  \/ \E e \in Tracked, withNew \in BOOLEAN : Construct(e, withNew)
  \/ \E e \in Tracked : ReadValidity(e)
  \/ \E i \in Instances : ReadValid(i)
  \/ \E i \in Instances, prop \in Facets : ReadFacet(i, prop)

\* Reads of one control of each declared type and shape.
SpecMessages == InitMessages /\ [][NextMessages]_vars

\* ================================================================== claims

Last(seq) == seq[Len(seq)]

\* The checkers in the order the design fixes.
FixedOrder ==
  <<"badInput", "customError", "patternMismatch", "rangeOverflow", "rangeUnderflow",
    "stepMismatch", "tooLong", "tooShort", "typeMismatch", "valueMissing">>

\* The messages valueMissing writes, by key.
ValueMissingKeys ==
  {"ValueMissing", "CheckboxMissing", "RadioMissing", "FileMissing",
   "SelectMissing", "Please select one or more files."}

\* A custom validator of c fails explicitly.
ValidatorFails(c) == \E k \in 1..Len(registry[c]) : registry[c][k] = "false"

\* c's entry is a non-empty message flagged custom.
HoldsCustom(c) == store[c].key # "" /\ store[c].is_custom

\* The last operation was a read of `valid` on a candidate whose required and
\* maxlength predicates fail while no other checker does.
RequiredAndMaxlengthFail ==
  /\ ret.op = "valid"
  /\ ctl[ret.el].candidate
  /\ ctl[ret.el].failing = {"required", "maxlength"}
  /\ ~ValidatorFails(ret.el)
  /\ ~HoldsCustom(ret.el)

\* C1 as stated: when the required and the maxlength predicate both fail (and
\* no other checker does), a read of `valid` returns false and leaves the
\* valueMissing message, never the tooLong message.
C1_ValueMissingMessageLeft ==
  RequiredAndMaxlengthFail =>
    /\ ret.val = FALSE
    /\ store[ret.el].key \in ValueMissingKeys
    /\ store[ret.el].key # "TextTooLong"

\* C1, amended: when the required and the maxlength predicate both fail (and
\* no other checker does), a read of `valid` returns false, stops at tooLong
\* and leaves the tooLong message (citing maxlength and the length), never
\* the valueMissing message.
C1_TooLongMessageLeft ==
  RequiredAndMaxlengthFail =>
    /\ ret.val = FALSE
    /\ Last(ret.invoked) = "tooLong"
    /\ store[ret.el] = [key |-> "TextTooLong",
                        args |-> <<ctl[ret.el].attrs.maxlength, ctl[ret.el].length>>,
                        is_custom |-> FALSE]
    /\ store[ret.el].key \notin ValueMissingKeys

C1_Witness == RequiredAndMaxlengthFail /\ ret.val = FALSE

IsPrefix(s, t) == Len(s) <= Len(t) /\ \A k \in 1..Len(s) : s[k] = t[k]

\* Facet prop is violated for c in the current state.
Violated(c, prop) == Checker(prop, c, store[c]).invalid

\* C2: every read of `valid` on a candidate invokes the checkers in the fixed
\* order badInput .. valueMissing; it stops at the first one that reports a
\* violation, so that no checker before the last invoked one reported one, none
\* after it is invoked and none but it wrote the message store entry; a read
\* that returns true invoked all ten.
C2_FixedOrderShortCircuit ==
  (ret.op = "valid" /\ ctl[ret.el].candidate) =>
    /\ IsPrefix(ret.invoked, FixedOrder)
    /\ ret.invoked # <<>>
    /\ \A k \in 1..(Len(ret.invoked) - 1) : ~Violated(ret.el, ret.invoked[k])
    /\ ret.val = FALSE => /\ Violated(ret.el, Last(ret.invoked))
                          /\ \A k \in 1..Len(ret.writes) : ret.writes[k] = Last(ret.invoked)
    /\ ret.val = TRUE => ret.invoked = FixedOrder /\ ret.writes = <<>>

C2_Witness ==
  /\ ret.op = "valid"
  /\ ctl[ret.el].candidate
  /\ ret.val = FALSE
  /\ Last(ret.invoked) = "stepMismatch"
  /\ "required" \in ctl[ret.el].failing

\* C3: a read of `valid` on a control that is not a validation candidate
\* returns true, invokes no checker and calls no custom validator, and leaves
\* the message store entry cleared, the valid class present, the invalid
\* class absent and aria-invalid "false".
C3_NonCandidateAlwaysValid ==
  (ret.op = "valid" /\ ~ctl[ret.el].candidate) =>
    /\ ret.val = TRUE
    /\ ret.invoked = <<>>
    /\ ret.calls = 0
    /\ store[ret.el] = EmptyMessage
    /\ validClass(ret.el) \in classes[ret.el]
    /\ invalidClass(ret.el) \notin classes[ret.el]
    /\ aria[ret.el] = "false"

C3_Witness ==
  /\ ret.op = "valid"
  /\ ~ctl[ret.el].candidate
  /\ ctl[ret.el].failing = {"bad_input", "required"}
  /\ ValidatorFails(ret.el)
  /\ ret.val = TRUE

\* C4 as stated: when a custom validator of a control explicitly returns
\* false, the customError facet reads true and a read of `valid` returns
\* false with customError the last checker invoked.
C4_CustomValidatorStopsAtCustomError ==
  [][\A i \in Instances :
       ValidatorFails(inst[i]) =>
         /\ (ret'.op = "facet" /\ ReadFacet(i, "customError")) => ret'.val = TRUE
         /\ (ret'.op = "valid" /\ ReadValid(i)) =>
              /\ ret'.val = FALSE
              /\ ret'.invoked # <<>>
              /\ Last(ret'.invoked) = "customError"]_vars

\* C4, amended: when a custom validator of a control explicitly returns false,
\* the customError facet reads true; and if the control is a validation
\* candidate, a read of `valid` returns false and invokes no checker from
\* patternMismatch onward whatever the structural predicates say: it stops at
\* customError when the raw-input check passes, at badInput when it fails.
C4_CustomValidatorFailsCandidate ==
  [][\A i \in Instances :
       ValidatorFails(inst[i]) =>
         /\ (ret'.op = "facet" /\ ReadFacet(i, "customError")) => ret'.val = TRUE
         /\ (ret'.op = "valid" /\ ctl[inst[i]].candidate /\ ReadValid(i)) =>
              /\ ret'.val = FALSE
              /\ ret'.invoked = IF "bad_input" \in ctl[inst[i]].failing
                                  THEN <<"badInput">>
                                  ELSE <<"badInput", "customError">>]_vars

C4_Witness ==
  /\ ret.op = "valid"
  /\ ctl[ret.el].candidate
  /\ ValidatorFails(ret.el)
  /\ ctl[ret.el].failing = {}
  /\ ret.val = FALSE
  /\ ret.invoked = <<"badInput", "customError">>

\* C5: the cache holds at most one ValidityState per control; every lookup
\* for a control, with or without `new` or through the accessor, has
\* returned the same instance, and that instance's element is the control.
C5_SingleInstance ==
  /\ \A c \in Controls :
       /\ Cardinality(returned[c]) <= 1
       /\ Cardinality({i \in Instances : inst[i] = c}) <= 1
       /\ cache[c] # NoInstance =>
            /\ cache[c] \in Instances
            /\ inst[cache[c]] = c
            /\ returned[c] = {cache[c]}
  /\ (ret.op = "construct" /\ ret.val) => inst[ret.obj] = ret.el

C5_Witness ==
  /\ Len(inst) = 2
  /\ ret.op = "construct"
  /\ ret.obj = 1
  /\ returned[inst[2]] # {}

\* C6: a read of `valid` returns true if and only if the control is not a
\* validation candidate or none of the ten facets evaluates to a violation
\* in the state the read starts from.
C6_ValidIffNoFacetViolated ==
  [][\A i \in Instances :
       (ret'.op = "valid" /\ ReadValid(i)) =>
         (ret'.val = TRUE <=>
            \/ ~ctl[inst[i]].candidate
            \/ \A prop \in Facets : ~Violated(inst[i], prop))]_vars

C6_Witness ==
  /\ ret.op = "valid"
  /\ ctl[ret.el].candidate
  /\ registry[ret.el] = <<"true", "undefined">>
  /\ ret.val = TRUE

\* C7: a read of `valid` that directly follows a read of `valid` on the same
\* control returns the same boolean and leaves the same message store entry,
\* classes and aria-invalid as the first; when the first returned true, the
\* second returns true with an empty entry.
C7_RereadSame ==
  [][\A i \in Instances :
       (ret.op = "valid" /\ ret.obj = i /\ ret'.op = "valid" /\ ReadValid(i)) =>
         /\ ret'.val = ret.val
         /\ store' = store
         /\ classes' = classes
         /\ aria' = aria
         /\ ret.val = TRUE => store'[inst[i]] = EmptyMessage]_vars

C7_Witness ==
  /\ ret.op = "valid"
  /\ ret.repeat = 2
  /\ ctl[ret.el].candidate
  /\ ret.val = TRUE
  /\ store[ret.el] = EmptyMessage

\* C8 as stated: after a read of `valid` that returns false the entry is
\* non-empty and was written during that read by the checker that stopped
\* the evaluation.
C8_FalseLeavesMessageOfThisRead ==
  (ret.op = "valid" /\ ret.val = FALSE) =>
    /\ NonEmpty(store[ret.el])
    /\ ret.writes = <<Last(ret.invoked)>>

\* C8, amended: each checker other than customError, whenever it reports a
\* violation, writes its derived message before returning, so after a read of
\* `valid` that stops at one of them the entry is non-empty and is the message
\* that checker wrote during the read; customError writes nothing: when a
\* read of `valid` stops at it, or the facet is read, the entry is what it
\* was before the read (a custom message, a leftover or empty).
C8_MessageWrittenUnlessCustomError ==
  [][\A i \in Instances :
       /\ \A prop \in Facets :
            (ret'.op = "facet" /\ ret'.val = TRUE /\ ReadFacet(i, prop)) =>
              IF prop = "customError"
                THEN store' = store
                ELSE /\ NonEmpty(store'[inst[i]])
                     /\ store'[inst[i]] = Checker(prop, inst[i], EmptyMessage).msg
       /\ (ret'.op = "valid" /\ ret'.val = FALSE /\ ReadValid(i)) =>
            IF Last(ret'.invoked) = "customError"
              THEN ret'.writes = <<>> /\ store' = store
              ELSE /\ ret'.writes = <<Last(ret'.invoked)>>
                   /\ NonEmpty(store'[inst[i]])
                   /\ ~store'[inst[i]].is_custom
                   /\ store'[inst[i]] =
                        Checker(Last(ret'.invoked), inst[i], EmptyMessage).msg]_vars

C8_Witness ==
  /\ ret.op = "valid"
  /\ ret.val = FALSE
  /\ Last(ret.invoked) = "typeMismatch"
  /\ store[ret.el].key = "Please use the appropriate format."

\* c is invalid for some facet, or holds a message flagged custom.
InvalidOrCustom(c) == (\E prop \in Facets : Violated(c, prop)) \/ store[c].is_custom

\* C9 as stated: in every reachable state a control's entry is non-empty
\* only if the control is invalid for some facet or holds a message flagged
\* custom, and a read of `valid` that returns true leaves the entry cleared.
C9_NonEmptyOnlyIfInvalid ==
  /\ \A c \in Controls : NonEmpty(store[c]) => InvalidOrCustom(c)
  /\ (ret.op = "valid" /\ ret.val = TRUE) => store[ret.el] = EmptyMessage

\* C9, amended: right after a read of `valid` (before the control changes or
\* a facet is read) the control's entry is non-empty only if the control is
\* invalid for some facet or holds a message flagged custom, and a read of
\* `valid` that returns true leaves the entry cleared.
C9_NonEmptyOnlyIfInvalidAfterRead ==
  ret.op = "valid" =>
    /\ NonEmpty(store[ret.el]) => InvalidOrCustom(ret.el)
    /\ ret.val = TRUE => store[ret.el] = EmptyMessage

C9_Witness ==
  /\ ret.op = "valid"
  /\ ret.val = FALSE
  /\ ctl[ret.el].failing = {"min"}
  /\ NonEmpty(store[ret.el])
  /\ ~store[ret.el].is_custom

\* C10: after every read of `valid` the validated class is present and
\* exactly one of the valid and invalid classes is: the invalid one with
\* aria-invalid "true" when the read returned false, the valid one with
\* aria-invalid "false" when it returned true.
C10_PresentationAgrees ==
  ret.op = "valid" =>
    /\ validatedClass(ret.el) \in classes[ret.el]
    /\ (validClass(ret.el) \in classes[ret.el]) # (invalidClass(ret.el) \in classes[ret.el])
    /\ ret.val = FALSE => /\ invalidClass(ret.el) \in classes[ret.el]
                          /\ validClass(ret.el) \notin classes[ret.el]
                          /\ aria[ret.el] = "true"
    /\ ret.val = TRUE => /\ validClass(ret.el) \in classes[ret.el]
                         /\ invalidClass(ret.el) \notin classes[ret.el]
                         /\ aria[ret.el] = "false"

C10_Witness ==
  /\ ret.op = "valid"
  /\ ret.val = FALSE
  /\ ret.repeat = 1
  /\ invalidClass(ret.el) \in classes[ret.el]
  /\ ctl[ret.el].failing = {}

\* The message badInput writes.
BadInputMessage ==
  [key |-> "Please match the requested type.", args |-> <<>>, is_custom |-> FALSE]

\* C11: when a candidate's entry is a non-empty message flagged custom, a read
\* of `valid` returns false; the custom message is still the entry after the
\* read when the raw-input check passes, whatever the structural predicates
\* report, and the badInput message is the entry when the raw-input check fails.
C11_CustomMessagePrecedence ==
  [][\A i \in Instances :
       (ret'.op = "valid" /\ HoldsCustom(inst[i]) /\ ctl[inst[i]].candidate
          /\ ReadValid(i)) =>
         /\ ret'.val = FALSE
         /\ store'[inst[i]] = IF "bad_input" \in ctl[inst[i]].failing
                                THEN BadInputMessage
                                ELSE store[inst[i]]]_vars

C11_Witness ==
  /\ ret.op = "valid"
  /\ ret.val = FALSE
  /\ ctl[ret.el].candidate
  /\ ctl[ret.el].failing = {"pattern", "required"}
  /\ ~ValidatorFails(ret.el)
  /\ HoldsCustom(ret.el)

\* C12: constructing a ValidityState for something that is not a control
\* throws, and the cache, the instances, the Message Store and the presentation
\* state of every control are what they were before the call.
C12_NonElementThrows ==
  [][(ret'.op = "construct" /\ ret'.el \notin Controls) =>
       /\ ret'.val = FALSE
       /\ ret'.obj = NoInstance
       /\ UNCHANGED <<cache, inst, returned, store, classes, aria>>]_vars

C12_Witness ==
  /\ ret.op = "construct"
  /\ ret.el = NonElement
  /\ ret.val = FALSE
  /\ cache[NonElement] = NoInstance
  /\ \E c \in Controls : cache[c] # NoInstance /\ NonEmpty(store[c])

\* The predicate whose failure each structural facet reports.
PredicateOf ==
  [badInput |-> "bad_input", patternMismatch |-> "pattern", rangeOverflow |-> "max",
   rangeUnderflow |-> "min", stepMismatch |-> "step", tooLong |-> "maxlength",
   tooShort |-> "minlength", typeMismatch |-> "type", valueMissing |-> "required"]

\* What a facet read returns, from the control's current state alone.
FacetNow(c, prop) ==
  IF prop = "customError" THEN ValidatorFails(c) \/ HoldsCustom(c)
  ELSE PredicateOf[prop] \in ctl[c].failing

\* What a read of `valid` returns, from the control's current state alone.
ValidNow(c) ==
  \/ ~ctl[c].candidate
  \/ ctl[c].failing = {} /\ ~ValidatorFails(c) /\ ~HoldsCustom(c)

\* C13: the boolean a facet read or a read of `valid` returns is a function of
\* the control's state at the read (candidate status, predicate outcomes,
\* validator results, a non-empty custom-flagged entry); neither the classes,
\* the accessibility flag, the last result nor a non-custom entry left by an
\* earlier read enters it, so controls in the same state with different read
\* histories return the same booleans.
C13_ReadsReflectCurrentState ==
  [][\A i \in Instances :
       /\ (ret'.op = "valid" /\ ReadValid(i)) => ret'.val = ValidNow(inst[i])
       /\ \A prop \in Facets :
            (ret'.op = "facet" /\ ReadFacet(i, prop)) =>
              ret'.val = FacetNow(inst[i], prop)]_vars

\* A facet read reports no violation although an earlier read left a message
\* and the invalid marker behind.
C13_Witness ==
  /\ ret.op = "facet"
  /\ ret.val = FALSE
  /\ ctl[ret.el].candidate
  /\ ctl[ret.el].failing = {}
  /\ NonEmpty(store[ret.el])
  /\ ~store[ret.el].is_custom
  /\ invalidClass(ret.el) \in classes[ret.el]

\* The control's declared bound rendered by its declared type.
Rendered(c, name) ==
  IF get_type(c) \in {"date", "datetime", "datetime-local", "time"}
    THEN string_to_date(getAttribute(c, name), get_type(c))
    ELSE string_to_number(getAttribute(c, name), get_type(c))

\* C14: when the min predicate fails, the message rangeUnderflow writes has one
\* argument, the control's declared `min` attribute rendered by its declared
\* type, under the date, time or number underflow key of that type.
C14_UnderflowCitesMin ==
  [][\A i \in Instances :
       (ret'.op = "facet" /\ ret'.val = TRUE /\ ReadFacet(i, "rangeUnderflow")) =>
         /\ store'[inst[i]].args = <<Rendered(inst[i], "min")>>
         /\ store'[inst[i]].key =
              CASE get_type(inst[i]) \in {"date", "datetime", "datetime-local"} ->
                     "DateRangeUnderflow"
                [] get_type(inst[i]) = "time" -> "TimeRangeUnderflow"
                [] OTHER -> "NumberRangeUnderflow"]_vars

\* C15: when the minlength predicate fails, the message tooShort writes cites
\* the control's declared `minlength` attribute and then the length of the
\* value, as the message of tooLong cites `maxlength` and the length.
C15_TooShortCitesMinlength ==
  [][\A i \in Instances :
       (ret'.op = "facet" /\ ret'.val = TRUE /\ ReadFacet(i, "tooShort")) =>
         store'[inst[i]].args =
           <<getAttribute(inst[i], "minlength"), unicode_string_length(inst[i])>>]_vars

\* How many validators of the list vs customError calls: all up to and
\* including the first that returns false, all of them when none does.
CalledOf(vs) ==
  IF \E k \in 1..Len(vs) : vs[k] = "false"
    THEN CHOOSE k \in 1..Len(vs) : vs[k] = "false" /\ \A j \in 1..(k - 1) : vs[j] # "false"
    ELSE Len(vs)

\* C16: customError calls the validators in registration order up to and
\* including the first that returns false and no later one; it reports a
\* violation exactly when one returned false or the entry is a non-empty
\* custom-flagged message, so an undefined result never makes a violation and
\* an empty registry with no such message reports none.
C16_CustomValidatorsInOrder ==
  [][\A i \in Instances :
       /\ (ret'.op = "facet" /\ ReadFacet(i, "customError")) =>
            /\ customError(inst[i], store[inst[i]]).calls = CalledOf(registry[inst[i]])
            /\ ret'.val = (ValidatorFails(inst[i]) \/ HoldsCustom(inst[i]))
            /\ (registry[inst[i]] = <<>> /\ ~HoldsCustom(inst[i])) => ret'.val = FALSE
       /\ (ret'.op = "valid" /\ ReadValid(i)
             /\ Len(ret'.invoked) >= 2) =>
            /\ ret'.invoked[2] = "customError"
            /\ ret'.calls = CalledOf(registry[inst[i]])
            /\ (Len(ret'.invoked) = 2 /\ ret'.val = FALSE)
                 = (ValidatorFails(inst[i]) \/ HoldsCustom(inst[i]))]_vars

C16_Witness ==
  /\ ret.op = "valid"
  /\ registry[ret.el] = <<"undefined", "false">>
  /\ ~HoldsCustom(ret.el)
  /\ ret.calls = 2
  /\ Last(ret.invoked) = "customError"
  /\ ret.val = FALSE

\* C17: when the step predicate fails, stepMismatch writes the one-value
\* message citing the existing one of the two nearest valid values exactly
\* when the other is absent, and the two-value message citing both, the lower
\* first, exactly when both exist; a cited value is never an absent one.
C17_StepMessageByBounds ==
  [][\A i \in Instances :
       (ret'.op = "facet" /\ ret'.val = TRUE /\ ReadFacet(i, "stepMismatch")) =>
         LET lower == get_next_valid(inst[i])[1]
             upper == get_next_valid(inst[i])[2]
             msg == store'[inst[i]]
         IN  /\ (msg.key = "StepMismatchOneValue") = (lower = "null" \/ upper = "null")
             /\ (msg.key = "StepMismatch") = (lower # "null" /\ upper # "null")
             /\ msg.key = "StepMismatchOneValue" =>
                  msg.args = <<IF lower = "null" THEN upper ELSE lower>>
             /\ msg.key = "StepMismatch" => msg.args = <<lower, upper>>
             /\ \A k \in 1..Len(msg.args) : msg.args[k] # "null"]_vars

C17_Witness ==
  /\ ret.op = "facet"
  /\ ret.val = TRUE
  /\ get_next_valid(ret.el) = <<"null", "6">>
  /\ store[ret.el] = [key |-> "StepMismatchOneValue", args |-> <<"6">>, is_custom |-> FALSE]

\* C18: when the max predicate fails, the message rangeOverflow writes is the
\* date-range message citing the declared `max` as a date for the types date,
\* datetime and datetime-local, the time-range message for the type time, and
\* the number-range message citing `max` as a number for every other type.
C18_OverflowByType ==
  [][\A i \in Instances :
       (ret'.op = "facet" /\ ret'.val = TRUE /\ ReadFacet(i, "rangeOverflow")) =>
         LET type == get_type(inst[i])
             max == getAttribute(inst[i], "max")
             msg == store'[inst[i]]
         IN  /\ type \in {"date", "datetime", "datetime-local"} =>
                  msg = sprintf("DateRangeOverflow", <<string_to_date(max, type)>>)
             /\ type = "time" =>
                  msg = sprintf("TimeRangeOverflow", <<string_to_date(max, type)>>)
             /\ type \notin {"date", "datetime", "datetime-local", "time"} =>
                  msg = sprintf("NumberRangeOverflow", <<string_to_number(max, type)>>)]_vars

C18_Witness ==
  /\ ret.op = "facet"
  /\ ret.val = TRUE
  /\ get_type(ret.el) = "datetime-local"
  /\ store[ret.el].key = "DateRangeOverflow"
  /\ store[ret.el].args = <<string_to_date(getAttribute(ret.el, "max"), "datetime-local")>>

\* C19 as stated: while a candidate's entry is a non-empty custom-flagged
\* message, no read of `valid` and no facet read changes the entry, and every
\* read of `valid` returns false.
C19_EngineNeverReplacesCustom ==
  [][\A c \in Controls :
       (HoldsCustom(c) /\ ctl[c].candidate /\ ret'.op \in {"valid", "facet"}
          /\ ret'.el = c) =>
         /\ store'[c] = store[c]
         /\ ret'.op = "valid" => ret'.val = FALSE]_vars

\* C19: while a candidate's entry is a non-empty custom-flagged message, every
\* read of `valid` returns false; the entry is unchanged by a read of `valid`
\* when the raw-input check passes, and by a facet read that reports no
\* violation or reads customError. A read of `valid` with failing raw input
\* leaves the badInput message, and a read of a violated facet other than
\* customError leaves that facet's message, which is not flagged custom.
C19_CustomKeptUnlessCheckerWrites ==
  [][\A i \in Instances :
       (HoldsCustom(inst[i]) /\ ctl[inst[i]].candidate) =>
         /\ (ret'.op = "valid" /\ ReadValid(i)) =>
              /\ ret'.val = FALSE
              /\ "bad_input" \notin ctl[inst[i]].failing => store'[inst[i]] = store[inst[i]]
              /\ "bad_input" \in ctl[inst[i]].failing => store'[inst[i]] = BadInputMessage
         /\ \A prop \in Facets :
              (ret'.op = "facet" /\ ReadFacet(i, prop)) =>
                IF prop = "customError" \/ ret'.val = FALSE
                  THEN store'[inst[i]] = store[inst[i]]
                  ELSE ~store'[inst[i]].is_custom /\ NonEmpty(store'[inst[i]])]_vars

\* The custom message is still the entry after the second of two reads of
\* `valid` in a row, with a structural predicate failing.
C19_Witness ==
  /\ ret.op = "valid"
  /\ ret.repeat = 2
  /\ ret.val = FALSE
  /\ ctl[ret.el].candidate
  /\ ctl[ret.el].failing = {"required"}
  /\ HoldsCustom(ret.el)

\* C20: a read of one of the ten facets leaves the classes and the
\* accessibility flag of every control, the cache and the instances unchanged;
\* it leaves the Message Store unchanged when it reports no violation, and a
\* read of customError leaves the Message Store unchanged whatever it reports.
C20_FacetReadFrame ==
  [][/\ ret'.op = "facet" =>
          /\ UNCHANGED <<classes, aria, cache, inst>>
          /\ ret'.val = FALSE => store' = store
     /\ \A i \in Instances :
          (ret'.op = "facet" /\ ReadFacet(i, "customError")) => store' = store]_vars

\* customError reports a violation for a failing validator while the entry is
\* the message an earlier read of `valid` left, and the markers are as then.
C20_Witness ==
  /\ ret.op = "facet"
  /\ ret.val = TRUE
  /\ ctl[ret.el].failing = {}
  /\ ValidatorFails(ret.el)
  /\ NonEmpty(store[ret.el])
  /\ ~store[ret.el].is_custom
  /\ validClass(ret.el) \in classes[ret.el]
  /\ aria[ret.el] = "false"

====
